---------------------------- MODULE Spec2Model ----------------------------
(***************************************************************************)
(* A state-machine model of bqt (src/bqt.py): the BlenderApplication       *)
(* wrapper, its close interception and window-settings persistence, the    *)
(* on_update timer callback, lazy instantiation, and the register /        *)
(* unregister glue.  One process run of the host is a "session"; the       *)
(* QSettings store is the only state that survives from one session to     *)
(* the next.                                                               *)
(***************************************************************************)
EXTENDS Integers, Sequences, FiniteSets, TLC

VARIABLES
    platform,        \* platform.system().lower() of the machine
    env_tick,        \* BQT_TICK_RATE: <<>> when unset, else <<string of characters>>
    settings,        \* the QSettings store, group MainWindow: key -> <<>> or <<value>>
    lastWritten,     \* history: window values captured by the latest _store_window_geometry
    session,         \* history: number of the current host process
    phase,           \* "unloaded", "loaded", "failed" (import raised), "exited"
    TICK,            \* module constant TICK: <<>> until computed, else <<[num, den]>>
    loadError,       \* exception raised by the module body, "none" if none
    atexitHooks,     \* number of onexit registrations with atexit
    classRegistered, \* QOperator is registered with the host
    load_post,       \* number of create_global_app entries in bpy.app.handlers.load_post
    regError,        \* exception raised by the latest register()/unregister() call
    qapp,            \* QApplication.instance(): "none" or "wrapper"
    should_close,    \* BlenderApplication.should_close
    timers,          \* number of on_update registrations with bpy.app.timers
    widget,          \* blender_widget: geometry, maximized, fullscreen, visible
    restoreLog,      \* what _set_window_geometry read and which widget calls it made
    lastInstantiate, \* outcome of the latest instantiate_application() call
    hostFocus,       \* the host's native window handle has the keyboard focus
    lastNotify,      \* outcome of the latest notify() call
    closes,          \* history: close events intercepted in this session (saturating)
    writes,          \* history: _store_window_geometry calls in this session (saturating)
    quits,           \* history: quit commands issued in this session (saturating)
    quitSinceClose,  \* history: a quit command was issued after the latest intercepted close
    constructed,     \* history: BlenderApplication constructions completed in this session
    attempts,        \* history: BlenderApplication constructions begun in this session
    lastReturn,      \* value returned by the latest on_update(): <<>> or <<[num, den]>>
    appQuit,         \* onexit called app.quit()
    env_disable,     \* BQT_DISABLE_STARTUP: <<>> when unset, else <<string of characters>>
    file_path,       \* __file__ of the module, as a sequence of pieces of the path
    blenderProcess,  \* the process list has an executable whose path contains 'blender'
    tempIcon,        \* TEMP_ICON_FILEPATH (blender_icon.png in the temp directory) exists
    windowIcon,      \* the icon given to QApplication.setWindowIcon: "none" if never set
    lastHook,        \* outcome of the latest create_global_app() call
    staleCommand,    \* a QOperator class of an earlier execution of the module is registered
    staleHandlers,   \* create_global_app entries of earlier executions in load_post
    mainReport       \* what the script block caught from unregister(), "none" if nothing

envVars     == <<platform, env_tick, env_disable, file_path, blenderProcess>>
storeVars   == <<settings, lastWritten>>
moduleVars  == <<phase, TICK, loadError, atexitHooks>>
regVars     == <<classRegistered, load_post, regError>>
appVars     == <<qapp, should_close, timers, widget, restoreLog, lastInstantiate, hostFocus>>
eventVars   == <<lastNotify, closes, writes, quits, quitSinceClose, lastReturn>>
histVars    == <<session, constructed, attempts, appQuit>>
iconVars    == <<tempIcon, windowIcon>>
scriptVars  == <<lastHook, staleCommand, staleHandlers, mainReport>>
vars == <<envVars, storeVars, moduleVars, regVars, appVars, eventVars, histVars,
          iconVars, scriptVars>>

-----------------------------------------------------------------------------
(* Bounds of the model. *)
MaxSessions == 2      \* host processes run one after the other
MaxCount    == 2      \* where the history counters saturate
MaxStale    == 1      \* handler entries an earlier execution of the module left

Min(a, b) == IF a < b THEN a ELSE b
Bump(n)   == Min(n + 1, MaxCount)

Absent  == <<>>
Some(v) == <<v>>
IsSome(o) == o /= <<>>
Get(o)  == o[1]

-----------------------------------------------------------------------------
(* Platform flags, lines 22-24. *)
Platforms  == {"windows", "darwin", "linux", "freebsd"}
IS_WINDOWS == platform = "windows"
IS_MAC     == platform = "darwin"
IS_LINUX   == platform = "linux"


-----------------------------------------------------------------------------
(* TICK = 1.0 / float(os.getenv('BQT_TICK_RATE', '30')), line 55.           *)
(* An environment value is a sequence of characters.  float() is modelled   *)
(* on the signed decimal integers; every other text of TickRateInputs is    *)
(* one Python's float() rejects with ValueError.  A period is the rational  *)
(* num/den with den > 0.                                                    *)
DigitChars == {"0", "1", "2", "3", "4", "5", "6", "7", "8", "9"}

DigitVal(c) ==
    CASE c = "0" -> 0 [] c = "1" -> 1 [] c = "2" -> 2 [] c = "3" -> 3 [] c = "4" -> 4
      [] c = "5" -> 5 [] c = "6" -> 6 [] c = "7" -> 7 [] c = "8" -> 8 [] c = "9" -> 9

AllDigits(s) == Len(s) > 0 /\ \A i \in 1..Len(s) : s[i] \in DigitChars

RECURSIVE DigitsValue(_)
DigitsValue(s) ==
    IF Len(s) = 0 THEN 0
    ELSE 10 * DigitsValue(SubSeq(s, 1, Len(s) - 1)) + DigitVal(s[Len(s)])

\* float(text): [ok |-> TRUE, value |-> v], or [ok |-> FALSE, ...] for ValueError.
float(s) ==
    IF AllDigits(s) THEN [ok |-> TRUE, value |-> DigitsValue(s)]
    ELSE IF Len(s) > 1 /\ s[1] \in {"-", "+"} /\ AllDigits(Tail(s))
         THEN [ok |-> TRUE,
               value |-> IF s[1] = "-" THEN 0 - DigitsValue(Tail(s)) ELSE DigitsValue(Tail(s))]
         ELSE [ok |-> FALSE, value |-> 0]

DefaultTickRate == <<"3", "0">>

\* os.getenv(name, default)
getenv(value, default) == IF IsSome(value) THEN Get(value) ELSE default

Reciprocal(v) == IF v > 0 THEN [num |-> 1, den |-> v] ELSE [num |-> 0 - 1, den |-> 0 - v]

\* The outcome of evaluating line 55: the period, or the exception raised.
ComputeTICK(env) ==
    LET f == float(getenv(env, DefaultTickRate))
    IN  IF ~f.ok THEN [error |-> "ValueError", tick |-> Absent]
        ELSE IF f.value = 0 THEN [error |-> "ZeroDivisionError", tick |-> Absent]
        ELSE [error |-> "none", tick |-> Some(Reciprocal(f.value))]

\* Values of BQT_TICK_RATE: unset, positive, negative, zero, not a number, empty.
TickRateInputs ==
    { Absent,
      Some(<<"6", "0">>), Some(<<"1">>), Some(<<"0", "2">>), Some(<<"+", "7">>),
      Some(<<"-", "5">>), Some(<<"0">>), Some(<<"-", "0">>),
      Some(<<"f", "a", "s", "t">>), Some(<<>>), Some(<<"3", "x">>), Some(<<"-">>) }

\* The values the sessions of Spec run under.
SessionTickInputs == { Absent, Some(<<"6", "0">>), Some(<<"f", "a", "s", "t">>) }

-----------------------------------------------------------------------------
(* The persisted window settings, lines 49-52, 166-180 and 277-282.         *)
(* QSettings keeps a bool as the text "true"/"false" and a QRect as         *)
(* @Rect(x y w h); value(key, default) gives the default for a missing key. *)
SETTINGS_KEY_GEOMETRY    == "Geometry"
SETTINGS_KEY_MAXIMIZED   == "IsMaximized"
SETTINGS_KEY_FULL_SCREEN == "IsFullScreen"
SettingsKeys == {SETTINGS_KEY_GEOMETRY, SETTINGS_KEY_MAXIMIZED, SETTINGS_KEY_FULL_SCREEN}

DefaultRect == [x |-> 0, y |-> 0, w |-> 640, h |-> 480]
Rects == {DefaultRect, [x |-> 100, y |-> 50, w |-> 800, h |-> 600]}

VariantToString(b) == IF b THEN "true" ELSE "false"
EncodeRect(r) == <<"@Rect", r.x, r.y, r.w, r.h>>
DecodeRect(e) == [x |-> e[2], y |-> e[3], w |-> e[4], h |-> e[5]]

\* str.lower() on the texts a flag can hold
lower(s) ==
    CASE s \in {"True", "TRUE"} -> "true"
      [] s \in {"False", "FALSE"} -> "false"
      [] OTHER -> s

EmptyStore == [k \in SettingsKeys |-> Absent]

\* settings.value(key, default)
value(store, key, default) == IF IsSome(store[key]) THEN Get(store[key]) ELSE default

\* settings.value(SETTINGS_KEY_GEOMETRY, QRect(0, 0, 640, 480)), line 177
valueRect(store) ==
    IF IsSome(store[SETTINGS_KEY_GEOMETRY]) THEN DecodeRect(Get(store[SETTINGS_KEY_GEOMETRY]))
    ELSE DefaultRect

\* The widget before it is shown: Qt's initial top-level geometry, normal state.
NewWidget == [geometry |-> DefaultRect, maximized |-> FALSE, fullscreen |-> FALSE, visible |-> FALSE]

\* _store_window_geometry, lines 277-282: the store after the three setValue calls.
StoreMutSwapped(w, store) ==
    [store EXCEPT ![SETTINGS_KEY_GEOMETRY]    = Some(EncodeRect(w.geometry)),
                  ![SETTINGS_KEY_MAXIMIZED]   = Some(VariantToString(w.fullscreen)),
                  ![SETTINGS_KEY_FULL_SCREEN] = Some(VariantToString(w.maximized))]

StoreMutNothing(w, store) == store

_store_window_geometry(w, store) ==
    [store EXCEPT ![SETTINGS_KEY_GEOMETRY]    = Some(EncodeRect(w.geometry)),
                  ![SETTINGS_KEY_MAXIMIZED]   = Some(VariantToString(w.maximized)),
                  ![SETTINGS_KEY_FULL_SCREEN] = Some(VariantToString(w.fullscreen))]

\* What a restore read and did: the keys read with the value obtained, the calls
\* made on blender_widget, and the rectangle handed to setGeometry.
NoRestore == [read |-> [k \in SettingsKeys |-> Absent], calls |-> <<>>, rect |-> Absent]


\* _set_window_geometry, lines 166-180: full screen first, then maximized, then
\* the stored rectangle; each of the first two returns before the later reads.
RestoreMutMaximizedFirst(store) ==
    LET fs == value(store, SETTINGS_KEY_FULL_SCREEN, "false")
        mx == value(store, SETTINGS_KEY_MAXIMIZED, "false")
    IN  IF lower(mx) = "true"
        THEN [NoRestore EXCEPT !.read[SETTINGS_KEY_MAXIMIZED] = Some(mx),
                               !.calls = <<"showMaximized">>]
        ELSE IF lower(fs) = "true"
        THEN [NoRestore EXCEPT !.read[SETTINGS_KEY_MAXIMIZED] = Some(mx),
                               !.read[SETTINGS_KEY_FULL_SCREEN] = Some(fs),
                               !.calls = <<"showFullScreen">>]
        ELSE [read  |-> [NoRestore.read EXCEPT ![SETTINGS_KEY_FULL_SCREEN] = Some(fs),
                                               ![SETTINGS_KEY_MAXIMIZED] = Some(mx),
                                               ![SETTINGS_KEY_GEOMETRY] = Some(valueRect(store))],
              calls |-> <<"setGeometry", "show">>,
              rect  |-> Some(valueRect(store))]

_set_window_geometry(store) ==
    LET fs == value(store, SETTINGS_KEY_FULL_SCREEN, "false")
        mx == value(store, SETTINGS_KEY_MAXIMIZED, "false")
    IN  IF lower(fs) = "true"
        THEN [NoRestore EXCEPT !.read[SETTINGS_KEY_FULL_SCREEN] = Some(fs),
                               !.calls = <<"showFullScreen">>]
        ELSE IF lower(mx) = "true"
        THEN [NoRestore EXCEPT !.read[SETTINGS_KEY_FULL_SCREEN] = Some(fs),
                               !.read[SETTINGS_KEY_MAXIMIZED] = Some(mx),
                               !.calls = <<"showMaximized">>]
        ELSE [read  |-> [NoRestore.read EXCEPT ![SETTINGS_KEY_FULL_SCREEN] = Some(fs),
                                               ![SETTINGS_KEY_MAXIMIZED] = Some(mx),
                                               ![SETTINGS_KEY_GEOMETRY] = Some(valueRect(store))],
              calls |-> <<"setGeometry", "show">>,
              rect  |-> Some(valueRect(store))]

\* The effect of one QWidget call of a restore on blender_widget.
WidgetCall(w, call, rect) ==
    CASE call = "showFullScreen" ->
             [w EXCEPT !.fullscreen = TRUE, !.maximized = FALSE, !.visible = TRUE]
      [] call = "showMaximized" ->
             [w EXCEPT !.maximized = TRUE, !.fullscreen = FALSE, !.visible = TRUE]
      [] call = "setGeometry" -> [w EXCEPT !.geometry = Get(rect)]
      [] call = "show" -> [w EXCEPT !.visible = TRUE]

RECURSIVE ApplyCalls(_, _, _)
ApplyCalls(w, calls, rect) ==
    IF calls = <<>> THEN w
    ELSE ApplyCalls(WidgetCall(w, Head(calls), rect), Tail(calls), rect)

-----------------------------------------------------------------------------
(* The state of a host process that has just started: nothing imported,     *)
(* nothing registered, no QApplication.                                     *)
NoNotify == [receiver |-> "none", event |-> "none", accepted |-> TRUE,
             to_default |-> FALSE, result |-> "none"]

FreshProcess ==
    /\ phase = "unloaded" /\ TICK = Absent /\ loadError = "none" /\ atexitHooks = 0
    /\ classRegistered = FALSE /\ load_post = 0 /\ regError = "none"
    /\ qapp = "none" /\ should_close = FALSE /\ timers = 0
    /\ widget = NewWidget /\ restoreLog = NoRestore /\ lastInstantiate = "none"
    /\ hostFocus = TRUE
    /\ lastNotify = NoNotify /\ closes = 0 /\ writes = 0 /\ quits = 0
    /\ quitSinceClose = FALSE /\ lastReturn = Absent
    /\ constructed = 0 /\ attempts = 0 /\ appQuit = FALSE
    /\ windowIcon = "none" /\ lastHook = "none" /\ mainReport = "none"

\* The first session on a machine: the settings store is still empty.
FirstSession ==
    /\ platform \in Platforms
    /\ settings = EmptyStore
    /\ lastWritten = Absent
    /\ session = 1
    /\ FreshProcess

\* The add-on as it is installed: the module file lies in the host's startup
\* directory, automatic start is not disabled, the host's own process is in the
\* process list, no icon file is in the temp directory yet, and no earlier
\* execution of the module has registered anything with the host.
StartupPath == <<"/scripts/", "startup", "/bqt.py">>

Installed ==
    /\ env_disable = Absent
    /\ file_path = StartupPath
    /\ blenderProcess = TRUE
    /\ tempIcon = FALSE
    /\ staleCommand = FALSE
    /\ staleHandlers = 0

Init ==
    /\ env_tick \in SessionTickInputs
    /\ Installed
    /\ FirstSession

\* The module body, lines 22-55 and 444: TICK is computed at import, and the exit
\* hook is registered only if the body gets that far.
LoadModule ==
    /\ phase = "unloaded"
    /\ LET t == ComputeTICK(env_tick)
       IN  /\ loadError' = t.error
           /\ TICK' = t.tick
           /\ phase' = IF t.error = "none" THEN "loaded" ELSE "failed"
           /\ atexitHooks' = IF t.error = "none" THEN atexitHooks + 1 ELSE atexitHooks
    /\ UNCHANGED <<envVars, storeVars, regVars, appVars, eventVars, histVars, iconVars, scriptVars>>

-----------------------------------------------------------------------------
(* register / unregister, lines 390-423.  bpy.utils.register_class raises   *)
(* ValueError for a class that is registered already and                    *)
(* bpy.utils.unregister_class raises RuntimeError for one that is not       *)
(* (the errors the script block at lines 447-450 expects); each is the      *)
(* first statement, so the handler list is not reached when it raises.      *)
(* Registering a command class under a bl_idname replaces a class that an   *)
(* earlier execution of the module registered under the same bl_idname.     *)
RegisterMutHandlerFirst ==
    /\ phase = "loaded"
    /\ load_post' = load_post + 1
    /\ IF classRegistered
       THEN regError' = "ValueError" /\ UNCHANGED <<classRegistered, staleCommand>>
       ELSE regError' = "none" /\ classRegistered' = TRUE /\ staleCommand' = FALSE
    /\ UNCHANGED <<envVars, storeVars, moduleVars, appVars, eventVars, histVars, iconVars,
                   lastHook, staleHandlers, mainReport>>

register ==
    /\ phase = "loaded"
    /\ IF classRegistered
       THEN /\ regError' = "ValueError"
            /\ UNCHANGED <<classRegistered, load_post, staleCommand>>
       ELSE /\ regError' = "none"
            /\ classRegistered' = TRUE
            /\ staleCommand' = FALSE
            /\ load_post' = IF load_post = 0 THEN load_post + 1 ELSE load_post
    /\ UNCHANGED <<envVars, storeVars, moduleVars, appVars, eventVars, histVars, iconVars,
                   lastHook, staleHandlers, mainReport>>

unregister ==
    /\ phase = "loaded"
    /\ IF ~classRegistered
       THEN /\ regError' = "RuntimeError"
            /\ UNCHANGED <<classRegistered, load_post>>
       ELSE /\ regError' = "none"
            /\ classRegistered' = FALSE
            /\ load_post' = IF load_post > 0 THEN load_post - 1 ELSE load_post
    /\ UNCHANGED <<envVars, storeVars, moduleVars, appVars, eventVars, histVars, iconVars, scriptVars>>


-----------------------------------------------------------------------------
(* BlenderApplication.__init__, lines 71-103.  Only the Windows and macOS   *)
(* branches assign self._hwnd (lines 77-82); on any other platform line 84  *)
(* reads an attribute that was never set and raises AttributeError, before  *)
(* the icon branch of lines 87-95 is reached.  An instance whose           *)
(* constructor raised is dropped with the exception, so                     *)
(* QApplication.instance() stays None and the timer of line 343 is not      *)
(* registered.  The constructor's outcome: the exception, and whether       *)
(* _set_window_geometry runs (line 100).                                    *)
ConstructMutRestoresOnMac ==
    IF ~(IS_WINDOWS \/ IS_MAC) THEN [error |-> "AttributeError", restores |-> FALSE]
    ELSE [error |-> "none", restores |-> TRUE]

ConstructOutcome ==
    IF ~(IS_WINDOWS \/ IS_MAC) THEN [error |-> "AttributeError", restores |-> FALSE]
    ELSE [error |-> "none", restores |-> ~IS_MAC]

\* _get_application_icon_windows, lines 225-260: the PNG is saved to
\* TEMP_ICON_FILEPATH only inside the branch of a process whose executable path
\* contains 'blender' (lines 240-258); line 260 returns QIcon(TEMP_ICON_FILEPATH)
\* whether or not that branch ran.  A QIcon of a file that does not exist is null.
IconFileAfter(found, exists) == exists \/ found

_get_application_icon_windows(found, exists) ==
    IF IconFileAfter(found, exists) THEN "blender_icon.png" ELSE "null"

\* _get_application_icon_macos, lines 202-222: the icon of the application bundle.
_get_application_icon_macos == "blender icon.icns"

\* Lines 87-98: the icon of the platform, and setWindowIcon only for an icon that
\* is true, which a null QIcon is not.
IconSet(current, icon) == IF icon /= "null" THEN icon ELSE current

ConstructIcon ==
    IF IS_MAC THEN _get_application_icon_macos
    ELSE _get_application_icon_windows(blenderProcess, tempIcon)

\* instantiate_application, lines 340-345: construct and register the timer only
\* when there is no QApplication instance yet.
NeedsMutAlways(instance) == TRUE

NeedsConstruction(instance) == instance = "none"

Instantiate ==
    IF NeedsConstruction(qapp)
    THEN /\ attempts' = Bump(attempts)
         /\ IF ConstructOutcome.error = "none"
            THEN /\ lastInstantiate' = "constructed"
                 /\ qapp' = "wrapper"
                 /\ should_close' = FALSE
                 /\ constructed' = Bump(constructed)
                 /\ tempIcon' = IF IS_WINDOWS THEN IconFileAfter(blenderProcess, tempIcon)
                                 ELSE tempIcon
                 /\ windowIcon' = IconSet(windowIcon, ConstructIcon)
                 /\ restoreLog' = IF ConstructOutcome.restores
                                  THEN _set_window_geometry(settings) ELSE NoRestore
                 /\ widget' = ApplyCalls(NewWidget, restoreLog'.calls, restoreLog'.rect)
                 /\ timers' = timers + 1
            ELSE /\ lastInstantiate' = ConstructOutcome.error
                 /\ UNCHANGED <<qapp, should_close, constructed, restoreLog, widget, timers,
                                iconVars>>
    ELSE /\ lastInstantiate' = "existing"
         /\ UNCHANGED <<attempts, qapp, should_close, constructed, restoreLog, widget, timers,
                        iconVars>>

instantiate_application ==
    /\ phase = "loaded"
    /\ Instantiate
    /\ UNCHANGED <<envVars, storeVars, moduleVars, regVars, hostFocus, eventVars,
                   session, appQuit, scriptVars>>

\* QOperator.execute, lines 301-319: the registered command calls
\* instantiate_application.
execute ==
    /\ classRegistered
    /\ instantiate_application

-----------------------------------------------------------------------------
(* create_global_app, lines 372-387, the handler in load_post that the host *)
(* runs when a file has been loaded.  os.getenv gives None for a variable   *)
(* that is not set and the variable's text otherwise; `not` of it is true   *)
(* for None and for the empty text.  `'startup' in __file__` is true when   *)
(* the path has the piece "startup".                                        *)
FilePaths == {StartupPath,
              <<"/scripts/addons/bqt.py">>,
              <<"/home/", "startup", "s/scripts/addons/bqt.py">>}

DisableInputs == {Absent, Some(<<>>), Some(<<"1">>), Some(<<"0">>)}

Contains(path, piece) == \E i \in 1..Len(path) : path[i] = piece

Truthy(o) == IsSome(o) /\ Len(Get(o)) > 0

\* line 386
AutostartMutIgnoresDisable(file, disable) == Contains(file, "startup")

Autostart(file, disable) == Contains(file, "startup") /\ ~Truthy(disable)

\* line 387 calls the command registered as qoperator.global_app, whose execute
\* calls instantiate_application; bpy.ops has no such attribute when no command
\* is registered under that name.
create_global_app ==
    /\ phase = "loaded"
    /\ load_post > 0
    /\ IF Autostart(file_path, env_disable)
       THEN IF classRegistered \/ staleCommand
            THEN lastHook' = "invoked" /\ Instantiate
            ELSE /\ lastHook' = "AttributeError"
                 /\ UNCHANGED <<attempts, lastInstantiate, qapp, should_close, constructed,
                                restoreLog, widget, timers, iconVars>>
       ELSE /\ lastHook' = "skipped"
            /\ UNCHANGED <<attempts, lastInstantiate, qapp, should_close, constructed,
                           restoreLog, widget, timers, iconVars>>
    /\ UNCHANGED <<envVars, storeVars, moduleVars, regVars, hostFocus, eventVars,
                   session, appQuit, staleCommand, staleHandlers, mainReport>>

-----------------------------------------------------------------------------
(* The script block, lines 446-452, at the end of the module body when the  *)
(* module is run as __main__: unregister() inside a try that catches and    *)
(* prints ValueError, TypeError and RuntimeError, then register() outside   *)
(* it.  The module body has just defined QOperator and create_global_app,   *)
(* so what an earlier execution registered is another class and another     *)
(* function: unregister_class and the `in` tests of lines 404 and 422 do    *)
(* not find them.                                                           *)
UnregisterResult(reg, handlers) ==
    IF ~reg THEN [error |-> "RuntimeError", reg |-> reg, handlers |-> handlers]
    ELSE [error |-> "none", reg |-> FALSE,
          handlers |-> IF handlers > 0 THEN handlers - 1 ELSE handlers]

RegisterResult(reg, handlers) ==
    IF reg THEN [error |-> "ValueError", reg |-> reg, handlers |-> handlers]
    ELSE [error |-> "none", reg |-> TRUE,
          handlers |-> IF handlers = 0 THEN handlers + 1 ELSE handlers]

Caught == {"ValueError", "TypeError", "RuntimeError"}

__main__ ==
    /\ phase = "unloaded"
    /\ LET t == ComputeTICK(env_tick)
           u == UnregisterResult(classRegistered, load_post)
           r == RegisterResult(u.reg, u.handlers)
       IN  /\ loadError' = t.error
           /\ TICK' = t.tick
           /\ IF t.error /= "none"
              THEN /\ phase' = "failed"
                   /\ UNCHANGED <<atexitHooks, regVars, staleCommand, mainReport>>
              ELSE /\ atexitHooks' = atexitHooks + 1
                   /\ IF u.error = "none" \/ u.error \in Caught
                      THEN /\ phase' = "loaded"
                           /\ mainReport' = IF u.error = "none" THEN "clean" ELSE u.error
                           /\ regError' = r.error
                           /\ classRegistered' = r.reg
                           /\ load_post' = r.handlers
                           /\ staleCommand' = (staleCommand /\ r.error /= "none")
                      ELSE /\ phase' = "failed"
                           /\ mainReport' = "none"
                           /\ regError' = u.error
                           /\ classRegistered' = u.reg
                           /\ load_post' = u.handlers
                           /\ UNCHANGED staleCommand
    /\ UNCHANGED <<envVars, storeVars, appVars, eventVars, histVars, iconVars,
                   lastHook, staleHandlers>>

-----------------------------------------------------------------------------
(* BlenderApplication.notify, lines 106-130. *)
Receivers == {"blender_widget", "_blender_window", "other"}
Events    == {"QCloseEvent", "QEvent"}
Wrapped   == {"blender_widget", "_blender_window"}

\* line 124
InterceptMutWidgetOnly(receiver, event) ==
    event = "QCloseEvent" /\ receiver = "blender_widget"

InterceptMutAnyClose(receiver, event) ==
    event = "QCloseEvent"

IsInterceptedClose(receiver, event) ==
    event = "QCloseEvent" /\ receiver \in Wrapped

\* QApplication.notify (the default handling): the event reaches its receiver,
\* and a close event that reaches the wrapped window or its container closes it.
DefaultNotify(w, receiver, event) ==
    IF event = "QCloseEvent" /\ receiver \in Wrapped THEN [w EXCEPT !.visible = FALSE] ELSE w

notify(receiver, event) ==
    /\ phase = "loaded"
    /\ qapp = "wrapper"
    /\ IF IsInterceptedClose(receiver, event)
       THEN /\ lastNotify' = [receiver |-> receiver, event |-> event, accepted |-> FALSE,
                              to_default |-> FALSE, result |-> "False"]
            /\ settings' = _store_window_geometry(widget, settings)
            /\ lastWritten' = Some([geometry |-> widget.geometry,
                                    maximized |-> widget.maximized,
                                    fullscreen |-> widget.fullscreen])
            /\ writes' = Bump(writes)
            /\ closes' = Bump(closes)
            /\ should_close' = TRUE
            /\ quitSinceClose' = FALSE
            /\ UNCHANGED widget
       ELSE /\ lastNotify' = [receiver |-> receiver, event |-> event, accepted |-> TRUE,
                              to_default |-> TRUE, result |-> "super"]
            /\ widget' = DefaultNotify(widget, receiver, event)
            /\ UNCHANGED <<settings, lastWritten, writes, closes, should_close, quitSinceClose>>
    /\ UNCHANGED <<envVars, moduleVars, regVars, qapp, timers, restoreLog, lastInstantiate,
                   hostFocus, quits, lastReturn, histVars, iconVars, scriptVars>>

\* _on_focus_object_changed, lines 133-148: on Windows, focus landing on the
\* container is handed to the host's native window.
_on_focus_object_changed(focus_object) ==
    /\ phase = "loaded"
    /\ qapp = "wrapper"
    /\ hostFocus' = IF focus_object = "blender_widget" /\ IS_WINDOWS THEN TRUE
                    ELSE IF focus_object = "other" THEN FALSE
                    ELSE hostFocus
    /\ UNCHANGED <<envVars, storeVars, moduleVars, regVars, qapp, should_close, timers,
                   widget, restoreLog, lastInstantiate, eventVars, histVars, iconVars, scriptVars>>

\* The user moves, maximizes or full-screens the shown window.
UserChangesWindow ==
    /\ phase = "loaded"
    /\ qapp = "wrapper"
    /\ widget.visible
    /\ \E g \in Rects, m \in BOOLEAN, f \in BOOLEAN :
           widget' = [widget EXCEPT !.geometry = g, !.maximized = m, !.fullscreen = f]
    /\ UNCHANGED <<envVars, storeVars, moduleVars, regVars, qapp, should_close, timers,
                   restoreLog, lastInstantiate, hostFocus, eventVars, histVars, iconVars, scriptVars>>

-----------------------------------------------------------------------------
(* on_update, lines 348-369, run by the host's timer each time it is due.   *)
(* The host re-arms a timer whose function returns a number and drops one   *)
(* whose function returns None.                                             *)
QuitMutAlways(flag) == TRUE

QuitMutNever(flag) == FALSE

\* line 366
ShouldQuit(flag) == flag

\* line 369
ReturnMutNoneAfterQuit(flag, tick) == IF flag THEN Absent ELSE tick

on_update_return(flag, tick) == tick

on_update ==
    /\ phase = "loaded"
    /\ timers > 0
    /\ qapp = "wrapper"
    /\ IF ShouldQuit(should_close)
       THEN quits' = Bump(quits) /\ quitSinceClose' = TRUE
       ELSE UNCHANGED <<quits, quitSinceClose>>
    /\ lastReturn' = on_update_return(should_close, TICK)
    /\ timers' = IF IsSome(lastReturn') THEN timers ELSE timers - 1
    /\ UNCHANGED <<envVars, storeVars, moduleVars, regVars, qapp, should_close, widget,
                   restoreLog, lastInstantiate, hostFocus, lastNotify, closes, writes, histVars,
                   iconVars, scriptVars>>

-----------------------------------------------------------------------------
(* Process exit runs the atexit hooks: onexit, lines 426-441, quits the     *)
(* QApplication instance if there is one.  Nothing of the process outlives  *)
(* it but the settings store, and the next host process starts fresh.       *)
OnexitMutAlways(instance) == TRUE

onexit(instance) == instance /= "none"

ProcessExit ==
    /\ phase = "loaded"
    /\ phase' = "exited"
    /\ appQuit' = (atexitHooks > 0 /\ onexit(qapp))
    /\ TICK' = Absent /\ loadError' = "none" /\ atexitHooks' = 0
    /\ classRegistered' = FALSE /\ load_post' = 0 /\ regError' = "none"
    /\ qapp' = "none" /\ should_close' = FALSE /\ timers' = 0
    /\ widget' = NewWidget /\ restoreLog' = NoRestore /\ lastInstantiate' = "none"
    /\ hostFocus' = TRUE
    /\ lastNotify' = NoNotify /\ closes' = 0 /\ writes' = 0 /\ quits' = 0
    /\ quitSinceClose' = FALSE /\ lastReturn' = Absent
    /\ windowIcon' = "none" /\ lastHook' = "none" /\ mainReport' = "none"
    /\ staleCommand' = FALSE /\ staleHandlers' = 0
    /\ UNCHANGED <<envVars, storeVars, session, constructed, attempts, tempIcon>>

StartProcess ==
    /\ phase \in {"exited", "failed"}
    /\ session < MaxSessions
    /\ session' = session + 1
    /\ phase' = "unloaded" /\ TICK' = Absent /\ loadError' = "none" /\ atexitHooks' = 0
    /\ constructed' = 0 /\ attempts' = 0 /\ appQuit' = FALSE
    /\ UNCHANGED <<envVars, storeVars, regVars, appVars, eventVars, iconVars, scriptVars>>

Next ==
    \/ LoadModule
    \/ __main__
    \/ register
    \/ unregister
    \/ instantiate_application
    \/ execute
    \/ create_global_app
    \/ \E r \in Receivers, e \in Events : notify(r, e)
    \/ \E o \in Receivers : _on_focus_object_changed(o)
    \/ UserChangesWindow
    \/ on_update
    \/ ProcessExit
    \/ StartProcess

Spec == Init /\ [][Next]_vars

\* The wrapper, its window and its timer, without the registration glue.
NextWindow ==
    \/ LoadModule
    \/ instantiate_application
    \/ \E r \in Receivers, e \in Events : notify(r, e)
    \/ \E o \in Receivers : _on_focus_object_changed(o)
    \/ UserChangesWindow
    \/ on_update
    \/ ProcessExit
    \/ StartProcess

WindowSpec == Init /\ [][NextWindow]_vars

\* The registration glue and the command that instantiates the wrapper.
NextCommand ==
    \/ LoadModule
    \/ register
    \/ unregister
    \/ instantiate_application
    \/ execute
    \/ on_update
    \/ ProcessExit
    \/ StartProcess

CommandSpec == Init /\ [][NextCommand]_vars

\* One session, with the host firing the registered timer whenever it is due.
NextLive ==
    \/ LoadModule
    \/ instantiate_application
    \/ \E r \in Receivers, e \in Events : notify(r, e)
    \/ \E o \in Receivers : _on_focus_object_changed(o)
    \/ UserChangesWindow
    \/ on_update
    \/ ProcessExit

LiveSpec == Init /\ [][NextLive]_vars /\ WF_vars(on_update)

\* The tick period over every value of BQT_TICK_RATE.
TickInit ==
    /\ env_tick \in TickRateInputs
    /\ Installed
    /\ FirstSession

NextTick ==
    \/ LoadModule
    \/ instantiate_application
    \/ \E r \in Receivers, e \in Events : notify(r, e)
    \/ on_update
    \/ ProcessExit

TickSpec == TickInit /\ [][NextTick]_vars

\* The module in a host, over the ways it can be installed and started: every
\* value of BQT_DISABLE_STARTUP, every place of the module file, a process list
\* with or without the host's executable, a temp directory with or without an
\* icon file, and a host in which an earlier execution of the module has or has
\* not left its command and its handler entry.
HostInit ==
    /\ env_tick = Absent
    /\ env_disable \in DisableInputs
    /\ file_path \in FilePaths
    /\ blenderProcess \in BOOLEAN
    /\ tempIcon \in BOOLEAN
    /\ staleCommand \in BOOLEAN
    /\ staleHandlers \in 0..MaxStale
    /\ FirstSession

NextHost ==
    \/ LoadModule
    \/ __main__
    \/ register
    \/ unregister
    \/ instantiate_application
    \/ execute
    \/ create_global_app
    \/ ProcessExit
    \/ StartProcess

HostSpec == HostInit /\ [][NextHost]_vars

-----------------------------------------------------------------------------
(* Properties. *)

\* What a read of the three keys yields from a store.
PersistedFullScreen(store) == lower(value(store, SETTINGS_KEY_FULL_SCREEN, "false")) = "true"
PersistedMaximized(store)  == lower(value(store, SETTINGS_KEY_MAXIMIZED, "false")) = "true"
PersistedGeometry(store)   == valueRect(store)

\* C1: a close event that notify receives for the wrapped window or for its
\* container is ignored and kept from the default handling, the window stays as it
\* is, the window's geometry, maximized and full-screen state are in the settings
\* store afterwards, and should_close is true afterwards.
C1_CloseIntercepted ==
    [][\A r \in Wrapped :
          notify(r, "QCloseEvent") =>
              /\ lastNotify'.accepted = FALSE
              /\ lastNotify'.to_default = FALSE
              /\ widget' = widget
              /\ PersistedGeometry(settings') = widget.geometry
              /\ PersistedMaximized(settings') = widget.maximized
              /\ PersistedFullScreen(settings') = widget.fullscreen
              /\ should_close']_vars

C1_Witness ==
    /\ lastNotify.receiver = "_blender_window" /\ lastNotify.event = "QCloseEvent"
    /\ should_close /\ widget.visible /\ widget.maximized
    /\ PersistedMaximized(settings)

\* C2: every event that is not a close event, and every close event for a receiver
\* other than the wrapped window and its container, goes to the default handling,
\* and should_close and the settings store are left as they were.
C2_PassThrough ==
    [][\A r \in Receivers, e \in Events :
          (notify(r, e) /\ ~(e = "QCloseEvent" /\ r \in Wrapped)) =>
              /\ lastNotify'.to_default
              /\ lastNotify'.accepted
              /\ UNCHANGED <<should_close, settings>>]_vars

C2_Witness ==
    /\ lastNotify.receiver = "other" /\ lastNotify.event = "QCloseEvent"
    /\ lastNotify.to_default /\ ~should_close /\ settings = EmptyStore
    /\ qapp = "wrapper"

\* C3: with the timer registered by instantiate_application and the host firing it,
\* an intercepted close is followed by the quit command, and the first tick after
\* the close is the one that issues it.
C3_CloseLeadsToQuit ==
    /\ [][(on_update /\ should_close) => quitSinceClose']_vars
    /\ (should_close /\ ~quitSinceClose) ~> (quitSinceClose \/ phase /= "loaded")

C3_Witness ==
    /\ lastInstantiate = "constructed" /\ timers = 1
    /\ should_close /\ quitSinceClose /\ quits = 1 /\ phase = "loaded"

\* C4: the quit command is issued only by a tick that finds should_close true, and
\* should_close is true only once a close event for the wrapped window or its
\* container has been intercepted.
C4_QuitOnlyAfterClose ==
    /\ quits > 0 => should_close
    /\ quitSinceClose => quits > 0
    /\ should_close => closes > 0

C4_Witness ==
    /\ quits > 0 /\ should_close /\ closes > 0 /\ IsSome(lastReturn)

\* C5: a restore shows the window full screen when the persisted full-screen flag is
\* true, whatever the other two values; else maximized when the persisted maximized
\* flag is true, whatever the geometry; else it applies the persisted geometry and
\* shows the window normally.  One of the three, and only one, is applied.
RestoredAs(fs, mx, g) ==
    IF fs THEN restoreLog.calls = <<"showFullScreen">> /\ restoreLog.rect = Absent
    ELSE IF mx THEN restoreLog.calls = <<"showMaximized">> /\ restoreLog.rect = Absent
    ELSE restoreLog.calls = <<"setGeometry", "show">> /\ restoreLog.rect = Some(g)

C5_RestorePriority ==
    (qapp = "wrapper" /\ ~IS_MAC /\ writes = 0) =>
        RestoredAs(PersistedFullScreen(settings), PersistedMaximized(settings),
                   PersistedGeometry(settings))

C5_Witness ==
    /\ qapp = "wrapper" /\ writes = 0
    /\ PersistedFullScreen(settings) /\ PersistedMaximized(settings)
    /\ PersistedGeometry(settings) /= DefaultRect
    /\ restoreLog.calls = <<"showFullScreen">>

\* C6: the three values _store_window_geometry writes are the values a read of the
\* three keys gives back, and every key the next session's _set_window_geometry
\* reads gives the value that was written.
ReadBack(log, w) ==
    /\ IsSome(log.read[SETTINGS_KEY_FULL_SCREEN])
    /\ (lower(Get(log.read[SETTINGS_KEY_FULL_SCREEN])) = "true") = w.fullscreen
    /\ IsSome(log.read[SETTINGS_KEY_MAXIMIZED]) =>
           (lower(Get(log.read[SETTINGS_KEY_MAXIMIZED])) = "true") = w.maximized
    /\ IsSome(log.read[SETTINGS_KEY_GEOMETRY]) =>
           Get(log.read[SETTINGS_KEY_GEOMETRY]) = w.geometry

C6_RoundTrip ==
    IsSome(lastWritten) =>
        /\ PersistedGeometry(settings) = Get(lastWritten).geometry
        /\ PersistedMaximized(settings) = Get(lastWritten).maximized
        /\ PersistedFullScreen(settings) = Get(lastWritten).fullscreen
        /\ (qapp = "wrapper" /\ ~IS_MAC /\ writes = 0) => ReadBack(restoreLog, Get(lastWritten))

C6_Witness ==
    /\ session = 2 /\ qapp = "wrapper" /\ writes = 0 /\ IsSome(lastWritten)
    /\ Get(lastWritten).geometry /= DefaultRect
    /\ restoreLog.read[SETTINGS_KEY_GEOMETRY] = Some(Get(lastWritten).geometry)
    /\ restoreLog.read[SETTINGS_KEY_MAXIMIZED] = Some("false")
    /\ restoreLog.read[SETTINGS_KEY_FULL_SCREEN] = Some("false")

\* C7 as stated: after register() exactly one command class is registered and one
\* create_global_app entry is in load_post, also when register() was called just
\* before; and unregister() with the command and the handler absent raises nothing
\* and changes nothing.
C7_RegistrationIdempotent ==
    [][/\ register => (classRegistered' /\ load_post' = 1)
       /\ (unregister /\ ~classRegistered /\ load_post = 0) =>
              (regError' = "none" /\ UNCHANGED <<classRegistered, load_post>>)]_vars

\* C7 as amended: the registrations are as stated, but the repeated call is not
\* silent: register() on a registered command raises ValueError and unregister()
\* with the command absent raises RuntimeError, each leaving the registrations as
\* they were.
C7_RegistrationStateIdempotent ==
    [][/\ register => (classRegistered' /\ load_post' = 1)
       /\ (register /\ classRegistered) =>
              (regError' = "ValueError" /\ UNCHANGED <<classRegistered, load_post>>)
       /\ (unregister /\ ~classRegistered /\ load_post = 0) =>
              (regError' = "RuntimeError" /\ UNCHANGED <<classRegistered, load_post>>)]_vars

C7_Witness ==
    /\ regError = "ValueError" /\ classRegistered /\ load_post = 1

\* C8 as stated: the period is 1/tick_rate for a positive numeric BQT_TICK_RATE, and
\* the default 1/30, with no error, when the variable is unset or not numeric; the
\* tick callback returns that period.
C8_TickPeriod ==
    /\ phase \in {"loaded", "failed"} =>
           LET f == float(getenv(env_tick, DefaultTickRate))
           IN  IF ~IsSome(env_tick) \/ ~f.ok
               THEN loadError = "none" /\ TICK = Some([num |-> 1, den |-> 30])
               ELSE f.value > 0 =>
                        (loadError = "none" /\ TICK = Some([num |-> 1, den |-> f.value]))
    /\ IsSome(lastReturn) => lastReturn = TICK

\* C9: once the timer is registered, every on_update returns the period TICK,
\* with should_close false or true and after a quit command as well, so the timer
\* stays registered.
C9_TimerRearmed ==
    (phase = "loaded" /\ constructed > 0) =>
        /\ timers = 1
        /\ IsSome(TICK)
        /\ (IsSome(lastReturn) \/ quits > 0) => lastReturn = TICK

C9_Witness ==
    /\ phase = "loaded" /\ should_close /\ quits >= 2 /\ timers = 1 /\ lastReturn = TICK

\* C10: over any calls of instantiate_application and QOperator.execute in one
\* process, at most one BlenderApplication is constructed and on_update is
\* registered at most once; a call that finds an instance returns it and
\* constructs nothing.
C10_SingleWrapper ==
    /\ constructed <= 1
    /\ timers <= 1
    /\ constructed = 1 => attempts = 1
    /\ phase = "loaded" => (qapp = "wrapper" <=> constructed = 1)
    /\ phase = "loaded" => (qapp = "wrapper" <=> timers = 1)
    /\ lastInstantiate = "existing" => (qapp = "wrapper" /\ constructed = 1)

C10_Witness ==
    /\ lastInstantiate = "existing" /\ classRegistered
    /\ qapp = "wrapper" /\ constructed = 1 /\ timers = 1

\* What create_global_app leaves alone when it does not invoke the command.
HookLeft == <<qapp, timers, constructed, attempts, lastInstantiate, widget, windowIcon>>

\* C11 (as stated): a create_global_app that runs with BQT_DISABLE_STARTUP set to
\* a non-empty value invokes no command, constructs no wrapper and registers no
\* timer, and a create_global_app invokes the command only when the variable is
\* not set and the module file is under a "startup" path.
C11_AutostartOnlyWhenAbsent ==
    [][create_global_app =>
          /\ Truthy(env_disable) => (lastHook' = "skipped" /\ UNCHANGED HookLeft)
          /\ lastHook' = "invoked" =>
                 (env_disable = Absent /\ Contains(file_path, "startup"))]_vars

\* C11 (amended): a create_global_app that runs with BQT_DISABLE_STARTUP set to a
\* non-empty value invokes no command, constructs no wrapper and registers no
\* timer, and a create_global_app invokes the command exactly when the variable
\* is not set or is set to the empty text and the module file is under a
\* "startup" path.
C11_AutostartUnlessDisabled ==
    [][create_global_app =>
          /\ Truthy(env_disable) => (lastHook' = "skipped" /\ UNCHANGED HookLeft)
          /\ lastHook' = "invoked" <=>
                 /\ env_disable \in {Absent, Some(<<>>)}
                 /\ Contains(file_path, "startup")
          /\ lastHook' /= "invoked" => UNCHANGED HookLeft]_vars

C11_Witness ==
    /\ lastHook = "skipped" /\ Truthy(env_disable) /\ Contains(file_path, "startup")
    /\ classRegistered /\ load_post = 1
    /\ qapp = "none" /\ timers = 0 /\ attempts = 0

\* C12: a module that has loaded has registered onexit with atexit exactly once;
\* at process exit onexit calls quit on the QApplication instance if there is
\* one, and calls nothing if no instance was created in the process.
C12_ExitHook ==
    /\ [](phase = "loaded" => atexitHooks = 1)
    /\ [](phase = "exited" => (appQuit <=> constructed > 0))
    /\ [][ProcessExit => (appQuit' <=> qapp = "wrapper")]_vars

C12_Witness ==
    /\ phase = "exited" /\ appQuit /\ constructed = 1 /\ qapp = "none"

\* A step that writes the settings store.
SettingsWritten == settings' /= settings \/ writes' > writes

\* C13 (as stated): in one session only the interception of a close event for the
\* wrapped window or its container writes the settings store, and it writes
\* once: after the first intercepted close of the session nothing writes the
\* store again.
C13_WrittenOnce ==
    [][SettingsWritten =>
          /\ \E r \in Wrapped : notify(r, "QCloseEvent")
          /\ closes = 0]_vars

\* C13 (amended): in one session only the interception of a close event for the
\* wrapped window or its container writes the settings store, and every
\* intercepted close writes it, the second and later ones as well.
C13_WrittenAtEveryClose ==
    /\ [][SettingsWritten => \E r \in Wrapped : notify(r, "QCloseEvent")]_vars
    /\ [][\A r \in Wrapped :
             notify(r, "QCloseEvent") =>
                 /\ writes' = Bump(writes)
                 /\ settings' = _store_window_geometry(widget, settings)]_vars
    /\ [](writes = closes)

C13_Witness ==
    /\ closes = 2 /\ writes = 2 /\ should_close
    /\ IsSome(lastWritten) /\ Get(lastWritten).maximized
    /\ PersistedMaximized(settings)

\* A call of instantiate_application, direct or through the command that
\* create_global_app invokes, that finds no QApplication instance and so
\* constructs the wrapper.
Constructs ==
    /\ qapp = "none"
    /\ instantiate_application \/ (create_global_app /\ lastHook' = "invoked")

\* C14 (as stated): on every platform but macOS the construction of the wrapper
\* reads the settings store once, restores the window state and shows the
\* container; on macOS it reads nothing, applies nothing and shows nothing.
C14_RestoreOffMac ==
    [][Constructs =>
          IF IS_MAC
          THEN restoreLog' = NoRestore /\ ~widget'.visible
          ELSE /\ restoreLog' = _set_window_geometry(settings)
               /\ widget'.visible
               /\ settings' = settings]_vars

\* C14 (amended): on Windows the construction of the wrapper reads the settings
\* store once, restores the window state and shows the container; on macOS it
\* reads nothing, applies nothing and shows nothing, and an intercepted close
\* still writes the store there; on every other platform the construction raises
\* before the store is read, and nothing is restored or shown.
C14_RestoreOnWindows ==
    /\ [][Constructs =>
             /\ settings' = settings
             /\ IF IS_WINDOWS
                THEN /\ restoreLog' = _set_window_geometry(settings)
                     /\ IsSome(restoreLog'.read[SETTINGS_KEY_FULL_SCREEN])
                     /\ widget'.visible
                ELSE /\ restoreLog' = NoRestore
                     /\ widget' = NewWidget /\ ~widget'.visible
                     /\ IS_MAC <=> qapp' = "wrapper"]_vars
    /\ [][restoreLog' /= restoreLog => (Constructs \/ ProcessExit)]_vars
    /\ [](IS_MAC => (restoreLog = NoRestore /\ ~widget.visible))
    /\ [][\A r \in Wrapped : (notify(r, "QCloseEvent") /\ IS_MAC) =>
             settings' = _store_window_geometry(widget, settings)]_vars

C14_Witness ==
    /\ IS_MAC /\ qapp = "wrapper" /\ constructed = 1
    /\ restoreLog = NoRestore /\ ~widget.visible
    /\ writes > 0 /\ IsSome(settings[SETTINGS_KEY_GEOMETRY])

\* C15: on Linux the construction of the wrapper ends in the NotImplementedError
\* of _get_application_icon_linux, which leaves instantiate_application, and then
\* no settings are restored, no window is shown and on_update is not registered.
C15_LinuxNotImplemented ==
    [][(Constructs /\ IS_LINUX) =>
          /\ lastInstantiate' = "NotImplementedError"
          /\ qapp' = "none"
          /\ restoreLog' = NoRestore
          /\ ~widget'.visible
          /\ timers' = 0]_vars

\* C16: on Windows, when no process of the process list has 'blender' in the path
\* of its executable, the construction of the wrapper gets no icon and sets no
\* application icon, whether or not the temp directory has a blender_icon.png.
C16_NoIconWithoutProcess ==
    [][(Constructs /\ IS_WINDOWS /\ ~blenderProcess) =>
          /\ _get_application_icon_windows(blenderProcess, tempIcon) = "null"
          /\ windowIcon' = "none"]_vars

\* C17: when the module is run as a script in a host where the command is or is
\* not registered and a create_global_app entry is or is not in load_post, the
\* script block lets no error of unregister() escape and ends with exactly one
\* command registered and exactly one create_global_app entry in load_post.
C17_ScriptEndsRegisteredOnce ==
    [][(__main__ /\ loadError' = "none") =>
          /\ phase' = "loaded"
          /\ mainReport' \in Caught \cup {"clean"}
          /\ regError' = "none"
          /\ classRegistered' /\ ~staleCommand'
          /\ load_post' + staleHandlers' = 1]_vars

\* C18: should_close is false from the construction of the wrapper until the
\* first intercepted close; once true it stays true for as long as the process
\* runs, and every on_update that runs while it is true issues the quit command,
\* the second and later ones as well.
C18_FlagLatched ==
    /\ [](closes = 0 => ~should_close)
    /\ [][Constructs => ~should_close']_vars
    /\ [][(should_close /\ phase' = "loaded") => should_close']_vars
    /\ [][(on_update /\ should_close) =>
             (quits' = Bump(quits) /\ quitSinceClose')]_vars

C18_Witness ==
    /\ should_close /\ closes = 1 /\ quits = 2 /\ quitSinceClose

\* C19: in every state where should_close is true, the settings store holds the
\* geometry, maximized and full-screen values that the latest intercepted close
\* of the session captured; so no quit command is issued in a session before the
\* window state of that session has been written.
C19_PersistedBeforeFlag ==
    /\ should_close =>
           /\ writes > 0 /\ IsSome(lastWritten)
           /\ \A k \in SettingsKeys : IsSome(settings[k])
           /\ PersistedGeometry(settings) = Get(lastWritten).geometry
           /\ PersistedMaximized(settings) = Get(lastWritten).maximized
           /\ PersistedFullScreen(settings) = Get(lastWritten).fullscreen
    /\ quits > 0 => (should_close /\ writes > 0)

C19_Witness ==
    /\ should_close /\ quits > 0 /\ writes = 1
    /\ Get(lastWritten).fullscreen /\ PersistedFullScreen(settings)
    /\ Get(lastWritten).geometry /= DefaultRect
    /\ PersistedGeometry(settings) = Get(lastWritten).geometry

=============================================================================
